---- MODULE Spec2Model ----
(***************************************************************************)
(* Connection registry of the deterministic network simulator              *)
(* (src/deterministic/network2/inner.rs): Inner::connect, Inner::listen,   *)
(* gc_dropped, unused_socket_port, register_new_connection_pair, together  *)
(* with the collaborators the registry drives: the bounded mpsc backlog    *)
(* channel, the future returned by connect, the Listener and the liveness  *)
(* handles of the two socket halves.                                       *)
(***************************************************************************)
EXTENDS Integers, Sequences, FiniteSets

(* ------------------------------ bounds --------------------------------- *)

\* Largest port value of the model; it stands for the u16 maximum 65535 from
\* which unused_socket_port scans downward (ports are 0..MaxPort).
MaxPort == 1

\* Number of connect calls of a behaviour.
MaxConnects == 2

\* Source IPs and destination (bind) addresses.
IPs == {"X", "Y"}
Addrs == {"A", "B"}

\* The (source IP, destination) arguments of the connect calls: two sources
\* to one destination, and one source to two destinations.
ConnectArgs == {<<"X", "A">>, <<"X", "B">>, <<"Y", "A">>}

\* Backlog channels that may be created for one address.
MaxChans == 2

\* mpsc::channel(1): the buffer shared by all senders of a backlog channel.
Buffer == 1

(* ------------------------------- state --------------------------------- *)

VARIABLES
    connections,  \* Inner.connections: set of [source, dest, h]; h names the
                  \* two liveness handles (the socket pair of connect call h)
    endpoints,    \* Inner.endpoints: Addrs -> ListenerState
    channels,     \* per address, the mpsc channels created for it, in order;
                  \* a channel's rx says who holds its receiver: the registry
                  \* (Unbound), a Listener, or nobody (the Listener was dropped)
    futures,      \* the future of each connect call, by call number
    firstSent,    \* history: per destination, the first server socket
                  \* enqueued by a connect future (0: none yet)
    rejected,     \* history: the address of the listen call that has just
                  \* returned AddrInUse ("-": the last step was no such call)
    diverged      \* a connect call that never returned (port scan underflow)

vars == <<connections, endpoints, channels, futures, firstSent, rejected,
          diverged>>

NoPort == 0 - 1

Vacant == [kind |-> "Vacant", tx |-> 0, rx |-> 0]
Unbound(tx, rx) == [kind |-> "Unbound", tx |-> tx, rx |-> rx]
Bound(tx) == [kind |-> "Bound", tx |-> tx, rx |-> 0]

\* mpsc::channel(1), its receiver held by `holder`. first and late are
\* history of the Listener wrapping the receiver: the first socket it
\* accepted, and whether the backlog was occupied when listen returned it.
NewChannel(holder) ==
    [queue |-> <<>>, parked |-> <<>>, rx |-> holder, first |-> 0,
     late |-> FALSE]

Init ==
    /\ connections = {}
    /\ endpoints = [a \in Addrs |-> Vacant]
    /\ channels = [a \in Addrs |-> <<>>]
    /\ futures = <<>>
    /\ firstSent = [a \in Addrs |-> 0]
    /\ rejected = "-"
    /\ diverged = FALSE

(* --------------------------- liveness handles -------------------------- *)

\* FaultyTcpStreamHandle::is_dropped of the client / server half of pair h.
client_is_dropped(futs, h) == futs[h].client = "dropped"
server_is_dropped(futs, h) == futs[h].server = "dropped"

(* ------------------------------ registry ------------------------------- *)

\* Mutant of ConnectionEq: identities are compared by destination alone.
ConnectionEq_DestOnly(c, d) == c.dest = d.dest

\* impl PartialEq for Connection: the address pair only.
ConnectionEq(c, d) == c.source = d.source /\ c.dest = d.dest

\* HashSet::contains under that equality.
Contains(conns, c) == \E d \in conns : ConnectionEq(c, d)

\* Mutant of gc_dropped: the retained set is never stored back, so dropped
\* identities stay registered.
gc_dropped_KeepAll(conns, futs) == conns

\* Mutant of gc_dropped: an identity is discarded as soon as one of its two
\* handles reports dropped.
gc_dropped_Either(conns, futs) ==
    {c \in conns : /\ ~client_is_dropped(futs, c.h)
                   /\ ~server_is_dropped(futs, c.h)}

\* Mutant of gc_dropped: only the client handle is consulted.
gc_dropped_ClientOnly(conns, futs) ==
    {c \in conns : ~client_is_dropped(futs, c.h)}

\* Inner::gc_dropped
gc_dropped(conns, futs) ==
    {c \in conns : \/ ~client_is_dropped(futs, c.h)
                   \/ ~server_is_dropped(futs, c.h)}

\* The downward scan of unused_socket_port; NoPort when the decrement
\* passes 0 (the call then never returns).
RECURSIVE ScanDown(_, _)
ScanDown(occupied, start) ==
    IF start \notin occupied THEN start
    ELSE IF start = 0 THEN NoPort
    ELSE ScanDown(occupied, start - 1)

\* Mutant of unused_socket_port: the scan returns its start value without
\* looking at the occupied ports.
unused_socket_port_Top(conns, addr) == MaxPort

\* Mutant of unused_socket_port: the ports of every registered identity
\* count as occupied, whatever its source IP.
unused_socket_port_AnyIP(conns, addr) ==
    LET occupied == {c.source[2] : c \in conns}
    IN  ScanDown(occupied, MaxPort)

\* Mutant of unused_socket_port: the scan stops at port 0 and returns it
\* when every port is occupied.
unused_socket_port_StopAtZero(conns, addr) ==
    LET occupied == {c.source[2] : c \in {v \in conns : v.source[1] = addr}}
    IN  IF (0..MaxPort) \ occupied = {} THEN 0
        ELSE ScanDown(occupied, MaxPort)

\* Mutant of unused_socket_port: the filter is inverted, so the occupied
\* ports are those of the identities of the other source IPs.
unused_socket_port_OtherIPs(conns, addr) ==
    LET occupied == {c.source[2] : c \in {v \in conns : v.source[1] # addr}}
    IN  ScanDown(occupied, MaxPort)

\* Inner::unused_socket_port
unused_socket_port(conns, addr) ==
    LET occupied == {c.source[2] : c \in {v \in conns : v.source[1] = addr}}
    IN  ScanDown(occupied, MaxPort)

\* Inner::register_new_connection_pair: [ok, conns]
register_new_connection_pair(conns, source, dest, h) ==
    LET connection == [source |-> source, dest |-> dest, h |-> h]
    IN  IF Contains(conns, connection)
        THEN [ok |-> FALSE, conns |-> conns]
        ELSE [ok |-> TRUE, conns |-> conns \cup {connection}]

\* Mutant of ConnectRegistration: the source address is formed with the top
\* port without scanning and the identity is stored without the contains
\* guard.
ConnectRegistration_Unguarded(conns, futs, source, dest, h) ==
    [port |-> MaxPort, ok |-> TRUE,
     conns |-> gc_dropped(conns, futs)
                 \cup {[source |-> <<source, MaxPort>>, dest |-> dest,
                        h |-> h]}]

\* Lines 78-81 of connect: gc, port allocation, registration.
\* [port, ok, conns]; port = NoPort when the scan never returns.
ConnectRegistration(conns, futs, source, dest, h) ==
    LET live == gc_dropped(conns, futs)
        free_socket_port == unused_socket_port(live, source)
        registration ==
            register_new_connection_pair(live, <<source, free_socket_port>>,
                                         dest, h)
    IN  IF free_socket_port = NoPort
        THEN [port |-> NoPort, ok |-> FALSE, conns |-> live]
        ELSE [port |-> free_socket_port, ok |-> registration.ok,
              conns |-> registration.conns]

\* Mutant of ConnectEndpoint: the entry is overwritten with a fresh Unbound
\* channel whether or not the address already has one.
ConnectEndpoint_Replace(eps, chans, dest) ==
    LET tx == Len(chans[dest]) + 1
    IN  [eps |-> [eps EXCEPT ![dest] = Unbound(tx, tx)],
         chans |-> [chans EXCEPT ![dest] = Append(@, NewChannel("registry"))],
         tx |-> tx]

\* Lines 83-99 of connect: the endpoint entry after the call and the sender
\* the future gets, [eps, chans, tx].
ConnectEndpoint(eps, chans, dest) ==
    IF eps[dest].kind = "Vacant"
    THEN LET tx == Len(chans[dest]) + 1
         IN  [eps |-> [eps EXCEPT ![dest] = Unbound(tx, tx)],
              chans |-> [chans EXCEPT
                            ![dest] = Append(@, NewChannel("registry"))],
              tx |-> tx]
    ELSE [eps |-> eps, chans |-> chans, tx |-> eps[dest].tx]

\* Inner::connect, as one of at most `calls` connect calls of a behaviour.
ConnectCall(source, dest, calls) ==
    /\ ~diverged
    /\ Len(futures) < calls
    /\ LET h == Len(futures) + 1
           r == ConnectRegistration(connections, futures, source, dest, h)
           e == ConnectEndpoint(endpoints, channels, dest)
       IN  IF r.port = NoPort
           THEN /\ connections' = r.conns
                /\ diverged' = TRUE
                /\ UNCHANGED <<endpoints, channels, futures>>
           ELSE /\ Len(e.chans[dest]) <= MaxChans
                /\ connections' = r.conns
                /\ endpoints' = e.eps
                /\ channels' = e.chans
                /\ futures' = Append(futures,
                       [pc |-> "new", ip |-> source, port |-> r.port,
                        dest |-> dest,
                        reg |-> IF r.ok THEN "Ok" ELSE "AddrInUse",
                        ch |-> e.tx, parked |-> FALSE,
                        client |-> IF r.ok THEN "future" ELSE "dropped",
                        server |-> IF r.ok THEN "future" ELSE "dropped"])
                /\ UNCHANGED diverged
    /\ rejected' = "-"
    /\ UNCHANGED firstSent

\* Inner::connect
Connect(source, dest) == ConnectCall(source, dest, MaxConnects)

\* Mutant of ListenEndpoint: the Bound entry taken out of the map by
\* `remove` is not put back before AddrInUse is returned.
ListenEndpoint_NoRestore(eps, chans, bind_addr) ==
    IF eps[bind_addr].kind = "Unbound"
    THEN [ok |-> TRUE,
          eps |-> [eps EXCEPT ![bind_addr] = Bound(eps[bind_addr].tx)],
          chans |-> [chans EXCEPT ![bind_addr][eps[bind_addr].rx] =
                        [@ EXCEPT !.rx = "listener",
                                  !.late = chans[bind_addr][eps[bind_addr].rx]
                                               .queue # <<>>]]]
    ELSE IF eps[bind_addr].kind = "Bound"
    THEN [ok |-> FALSE, eps |-> [eps EXCEPT ![bind_addr] = Vacant],
          chans |-> chans]
    ELSE LET tx == Len(chans[bind_addr]) + 1
         IN  [ok |-> TRUE,
              eps |-> [eps EXCEPT ![bind_addr] = Bound(tx)],
              chans |-> [chans EXCEPT
                            ![bind_addr] = Append(@, NewChannel("listener"))]]

\* Mutant of ListenEndpoint: an Unbound entry is bound to a freshly created
\* channel instead of the receiver the entry holds, which is dropped.
ListenEndpoint_FreshChannel(eps, chans, bind_addr) ==
    IF eps[bind_addr].kind = "Bound"
    THEN [ok |-> FALSE, eps |-> eps, chans |-> chans]
    ELSE LET tx == Len(chans[bind_addr]) + 1
             old == IF eps[bind_addr].kind = "Unbound"
                    THEN [chans EXCEPT ![bind_addr][eps[bind_addr].rx] =
                             [@ EXCEPT !.rx = "dropped"]]
                    ELSE chans
         IN  [ok |-> TRUE,
              eps |-> [eps EXCEPT ![bind_addr] = Bound(tx)],
              chans |-> [old EXCEPT
                            ![bind_addr] = Append(@, NewChannel("listener"))]]

\* Mutant of ListenEndpoint: a Bound entry is treated like a missing one, so
\* a second listen binds the address again with a new channel.
ListenEndpoint_Rebind(eps, chans, bind_addr) ==
    IF eps[bind_addr].kind = "Unbound"
    THEN [ok |-> TRUE,
          eps |-> [eps EXCEPT ![bind_addr] = Bound(eps[bind_addr].tx)],
          chans |-> [chans EXCEPT ![bind_addr][eps[bind_addr].rx] =
                        [@ EXCEPT !.rx = "listener",
                                  !.late = chans[bind_addr][eps[bind_addr].rx]
                                               .queue # <<>>]]]
    ELSE LET tx == Len(chans[bind_addr]) + 1
         IN  [ok |-> TRUE,
              eps |-> [eps EXCEPT ![bind_addr] = Bound(tx)],
              chans |-> [chans EXCEPT
                            ![bind_addr] = Append(@, NewChannel("listener"))]]

\* Mutant of ListenEndpoint: a Bound entry whose Listener has been dropped
\* is treated like a missing one, so the address can be bound again.
ListenEndpoint_RebindDropped(eps, chans, bind_addr) ==
    IF eps[bind_addr].kind = "Unbound"
    THEN [ok |-> TRUE,
          eps |-> [eps EXCEPT ![bind_addr] = Bound(eps[bind_addr].tx)],
          chans |-> [chans EXCEPT ![bind_addr][eps[bind_addr].rx] =
                        [@ EXCEPT !.rx = "listener",
                                  !.late = chans[bind_addr][eps[bind_addr].rx]
                                               .queue # <<>>]]]
    ELSE IF /\ eps[bind_addr].kind = "Bound"
            /\ chans[bind_addr][eps[bind_addr].tx].rx # "dropped"
    THEN [ok |-> FALSE, eps |-> eps, chans |-> chans]
    ELSE LET tx == Len(chans[bind_addr]) + 1
         IN  [ok |-> TRUE,
              eps |-> [eps EXCEPT ![bind_addr] = Bound(tx)],
              chans |-> [chans EXCEPT
                            ![bind_addr] = Append(@, NewChannel("listener"))]]

\* Lines 112-131 of listen: [ok, eps, chans]. ok is whether the call returns
\* Ok(listener) rather than Err(AddrInUse); the Listener wraps the receiver
\* of the channel whose rx becomes "listener".
ListenEndpoint(eps, chans, bind_addr) ==
    IF eps[bind_addr].kind = "Unbound"
    THEN [ok |-> TRUE,
          eps |-> [eps EXCEPT ![bind_addr] = Bound(eps[bind_addr].tx)],
          chans |-> [chans EXCEPT ![bind_addr][eps[bind_addr].rx] =
                        [@ EXCEPT !.rx = "listener",
                                  !.late = chans[bind_addr][eps[bind_addr].rx]
                                               .queue # <<>>]]]
    ELSE IF eps[bind_addr].kind = "Bound"
    THEN [ok |-> FALSE, eps |-> eps, chans |-> chans]
    ELSE LET tx == Len(chans[bind_addr]) + 1
         IN  [ok |-> TRUE,
              eps |-> [eps EXCEPT ![bind_addr] = Bound(tx)],
              chans |-> [chans EXCEPT
                            ![bind_addr] = Append(@, NewChannel("listener"))]]

\* Inner::listen
Listen(bind_addr) ==
    /\ ~diverged
    /\ LET r == ListenEndpoint(endpoints, channels, bind_addr)
       IN  /\ Len(r.chans[bind_addr]) <= MaxChans
           /\ connections' = gc_dropped(connections, futures)
           /\ endpoints' = r.eps
           /\ channels' = r.chans
           /\ rejected' = IF r.ok THEN "-" ELSE bind_addr
    /\ UNCHANGED <<futures, firstSent, diverged>>

(* ------------------- the future returned by connect -------------------- *)

\* Mutant of ChannelSend: a send on a full backlog fails at once, as a
\* try_send would, instead of queueing the message and waiting.
ChannelSend_TrySend(chan, f) ==
    IF chan.rx = "dropped" \/ Len(chan.queue) + 1 > Buffer
    THEN [res |-> "Err", chan |-> chan]
    ELSE [res |-> "Ok", chan |-> [chan EXCEPT !.queue = Append(@, f)]]

\* Sender side of `channel.send(server)`: poll_ready fails once the receiver
\* is gone; otherwise start_send pushes the message (every sender owns one
\* slot beyond the buffer) and parks the sender when the number of queued
\* messages exceeds the buffer, and the flush waits until it is unparked.
\* [res, chan]: res is "Ok", "Pending" or "Err".
ChannelSend(chan, f) ==
    IF chan.rx = "dropped"
    THEN [res |-> "Err", chan |-> chan]
    ELSE IF Len(chan.queue) + 1 > Buffer
    THEN [res |-> "Pending",
          chan |-> [chan EXCEPT !.queue = Append(@, f),
                                !.parked = Append(@, f)]]
    ELSE [res |-> "Ok", chan |-> [chan EXCEPT !.queue = Append(@, f)]]

\* Mutant of FirstPoll: the result of the send is ignored and the client is
\* returned also when the send failed.
FirstPoll_ErrIsOk(fut, res) ==
    IF fut.reg # "Ok"
    THEN [fut EXCEPT !.pc = "AddrInUse"]
    ELSE IF res = "Err"
    THEN [fut EXCEPT !.pc = "Ok", !.client = "caller", !.server = "dropped"]
    ELSE IF res = "Pending"
    THEN [fut EXCEPT !.pc = "suspended", !.parked = TRUE, !.server = "queue"]
    ELSE [fut EXCEPT !.pc = "Ok", !.client = "caller", !.server = "queue"]

\* Future f after the first poll of its async block, given the outcome of
\* the send (lines 102-106).
FirstPoll(fut, res) ==
    IF fut.reg # "Ok"
    THEN [fut EXCEPT !.pc = "AddrInUse"]
    ELSE IF res = "Err"
    THEN [fut EXCEPT !.pc = "ConnectionRefused",
                     !.client = "dropped", !.server = "dropped"]
    ELSE IF res = "Pending"
    THEN [fut EXCEPT !.pc = "suspended", !.parked = TRUE, !.server = "queue"]
    ELSE [fut EXCEPT !.pc = "Ok", !.client = "caller", !.server = "queue"]

\* First poll of the future returned by connect (lines 101-107).
Poll(f) ==
    /\ ~diverged
    /\ f \in 1..Len(futures)
    /\ futures[f].pc = "new"
    /\ LET fut == futures[f]
           chan == channels[fut.dest][fut.ch]
           s == IF fut.reg = "Ok" THEN ChannelSend(chan, f)
                ELSE [res |-> "Err", chan |-> chan]
           after == FirstPoll(fut, s.res)
       IN  /\ futures' = [futures EXCEPT ![f] = after]
           /\ channels' = [channels EXCEPT ![fut.dest][fut.ch] = s.chan]
           /\ firstSent' = IF after.server = "queue" /\ firstSent[fut.dest] = 0
                           THEN [firstSent EXCEPT ![fut.dest] = f]
                           ELSE firstSent
    /\ rejected' = "-"
    /\ UNCHANGED <<connections, endpoints, diverged>>

\* A suspended send is polled again after its sender was unparked: the flush
\* completes (also when the receiver is gone) and the client is returned.
Resume(f) ==
    /\ ~diverged
    /\ f \in 1..Len(futures)
    /\ futures[f].pc = "suspended"
    /\ ~futures[f].parked
    /\ futures' = [futures EXCEPT ![f].pc = "Ok", ![f].client = "caller"]
    /\ rejected' = "-"
    /\ UNCHANGED <<connections, endpoints, channels, firstSent, diverged>>

\* The caller drops the future before it completed: the client half, and the
\* server half unless the send has already moved it into the channel.
DropFuture(f) ==
    /\ ~diverged
    /\ f \in 1..Len(futures)
    /\ futures[f].pc \in {"new", "suspended"}
    /\ futures' = [futures EXCEPT
           ![f].pc = "cancelled",
           ![f].client = "dropped",
           ![f].server = IF @ = "future" THEN "dropped" ELSE @]
    /\ rejected' = "-"
    /\ UNCHANGED <<connections, endpoints, channels, firstSent, diverged>>

(* ----------------------------- the sockets ----------------------------- *)

\* The caller drops the client socket it got from a completed connect.
DropClient(h) ==
    /\ ~diverged
    /\ h \in 1..Len(futures)
    /\ futures[h].client = "caller"
    /\ futures' = [futures EXCEPT ![h].client = "dropped"]
    /\ rejected' = "-"
    /\ UNCHANGED <<connections, endpoints, channels, firstSent, diverged>>

\* The server application drops a server socket it accepted.
DropServer(h) ==
    /\ ~diverged
    /\ h \in 1..Len(futures)
    /\ futures[h].server = "accepted"
    /\ futures' = [futures EXCEPT ![h].server = "dropped"]
    /\ rejected' = "-"
    /\ UNCHANGED <<connections, endpoints, channels, firstSent, diverged>>

(* ----------------------------- the Listener ---------------------------- *)

Range(s) == {s[i] : i \in 1..Len(s)}

\* The futures after the receiver unparked the senders in `woken`.
Unpark(futs, woken) ==
    [g \in 1..Len(futs) |->
        IF g \in woken THEN [futs[g] EXCEPT !.parked = FALSE] ELSE futs[g]]

\* Listener::accept with a message available, on the Listener holding the
\* receiver of channel k of address a: the receiver pops the oldest message
\* and unparks the longest-parked sender.
Accept(a, k) ==
    /\ ~diverged
    /\ k \in 1..Len(channels[a])
    /\ channels[a][k].rx = "listener"
    /\ channels[a][k].queue # <<>>
    /\ LET chan == channels[a][k]
           h == Head(chan.queue)
           woken == IF chan.parked = <<>> THEN {} ELSE {Head(chan.parked)}
       IN  /\ channels' = [channels EXCEPT ![a][k] =
                  [chan EXCEPT !.queue = Tail(@),
                               !.parked = IF @ = <<>> THEN @ ELSE Tail(@),
                               !.first = IF @ = 0 THEN h ELSE @]]
           /\ futures' = [Unpark(futures, woken) EXCEPT
                  ![h].server = "accepted"]
    /\ rejected' = "-"
    /\ UNCHANGED <<connections, endpoints, firstSent, diverged>>

\* The Listener is dropped: its receiver closes the channel, unparks every
\* parked sender and drops the messages still queued.
DropListener(a, k) ==
    /\ ~diverged
    /\ k \in 1..Len(channels[a])
    /\ channels[a][k].rx = "listener"
    /\ LET chan == channels[a][k]
           drained == Range(chan.queue)
           woken == Unpark(futures, Range(chan.parked))
       IN  /\ channels' = [channels EXCEPT ![a][k] =
                  [chan EXCEPT !.queue = <<>>, !.parked = <<>>,
                               !.rx = "dropped"]]
           /\ futures' = [g \in 1..Len(futures) |->
                  IF g \in drained THEN [woken[g] EXCEPT !.server = "dropped"]
                  ELSE woken[g]]
    /\ rejected' = "-"
    /\ UNCHANGED <<connections, endpoints, firstSent, diverged>>

Next ==
    \/ \E c \in ConnectArgs : Connect(c[1], c[2])
    \/ \E a \in Addrs : Listen(a)
    \/ \E f \in 1..MaxConnects : Poll(f)
    \/ \E f \in 1..MaxConnects : Resume(f)
    \/ \E f \in 1..MaxConnects : DropFuture(f)
    \/ \E h \in 1..MaxConnects : DropClient(h)
    \/ \E h \in 1..MaxConnects : DropServer(h)
    \/ \E a \in Addrs, k \in 1..MaxChans : Accept(a, k)
    \/ \E a \in Addrs, k \in 1..MaxChans : DropListener(a, k)

Spec == Init /\ [][Next]_vars

(* ------------------------------ properties ----------------------------- *)

Futs == 1..Len(futures)

Chans(a) == 1..Len(channels[a])

\* The channels of address a whose receiver a live Listener holds.
ListenerChans(a) == {k \in Chans(a) : channels[a][k].rx = "listener"}

\* The identity of pair h can no longer be collected: a half is not dropped.
Live(h) ==
    /\ futures[h].reg = "Ok"
    /\ ~(client_is_dropped(futures, h) /\ server_is_dropped(futures, h))

\* C1: the identity set never holds two identities with the same
\* (source address, destination address) pair.
C1_Uniqueness ==
    \A c, d \in connections :
        (c.source = d.source /\ c.dest = d.dest) => c = d

\* An identity is registered under the address pair that an earlier, since
\* collected, connect call had used.
C1_Witness ==
    \E c \in connections : \E f \in Futs :
        /\ f # c.h
        /\ futures[f].reg = "Ok"
        /\ <<futures[f].ip, futures[f].port>> = c.source
        /\ futures[f].dest = c.dest

\* C2: while the Listener of address a is alive, listen(a) returns AddrInUse
\* and changes neither the endpoint map nor any channel, the entry stays
\* Bound with the sender of the Listener's channel, and a connect to a gets a
\* sender of the channel whose receiver that Listener holds.
C2_DoubleBind ==
    [][\A a \in Addrs : \A k \in ListenerChans(a) :
          /\ Listen(a) =>
                /\ rejected' = a
                /\ endpoints' = endpoints
                /\ endpoints[a] = Bound(k)
                /\ channels' = channels
          /\ (Len(futures') = Len(futures) + 1
                /\ futures'[Len(futures')].dest = a) =>
                /\ futures'[Len(futures')].ch = k
                /\ channels'[a][k] = channels[a][k]
      ]_vars

\* listen(A) has just returned AddrInUse, and the first Listener holds a
\* server socket of a connect made after it was bound, which it can accept.
C2_Witness ==
    /\ rejected = "A"
    /\ \E k \in ListenerChans("A") :
          /\ ~channels["A"][k].late
          /\ channels["A"][k].queue # <<>>

\* C3: when a connect to a was driven before any listen(a), listen(a)
\* succeeds and returns a Listener whose backlog starts with the server
\* socket that connect enqueued, and the first socket such a Listener
\* accepts is that one.
C3_ConnectBeforeListen ==
    \A a \in Addrs :
        /\ (endpoints[a].kind = "Unbound" /\ firstSent[a] # 0) =>
              LET r == ListenEndpoint(endpoints, channels, a)
              IN  /\ r.ok
                  /\ \E k \in 1..Len(r.chans[a]) :
                        /\ r.eps[a] = Bound(k)
                        /\ r.chans[a][k].rx = "listener"
                        /\ r.chans[a][k].queue # <<>>
                        /\ Head(r.chans[a][k].queue) = firstSent[a]
        /\ \A k \in Chans(a) :
              (channels[a][k].late /\ channels[a][k].first # 0) =>
                  channels[a][k].first = firstSent[a]

\* A Listener bound after a connect had been driven has accepted the server
\* socket of that connect, whose future had returned the client.
C3_Witness ==
    \E a \in Addrs : \E k \in Chans(a) :
        /\ channels[a][k].late
        /\ channels[a][k].first # 0
        /\ futures[channels[a][k].first].pc = "Ok"
        /\ futures[channels[a][k].first].server = "accepted"

\* C4: a future driven towards an address that was never listened on, whose
\* backlog another connect's server socket already occupies, has resolved
\* to ConnectionRefused.
C4_RefusedWhenOccupied ==
    \A f \in Futs :
        LET a == futures[f].dest
        IN  (/\ endpoints[a].kind = "Unbound"
             /\ firstSent[a] \notin {0, f}
             /\ futures[f].pc \notin {"new", "cancelled"})
            => futures[f].pc = "ConnectionRefused"

\* The Listener that claimed address a has been dropped.
ListenerDropped(a) ==
    /\ endpoints[a].kind = "Bound"
    /\ channels[a][endpoints[a].tx].rx = "dropped"

\* C5: once the Listener that claimed an address has been dropped, the first
\* poll of a connect future to that address resolves it to
\* ConnectionRefused, with no socket enqueued and both halves dropped.
C5_RefusedAfterListenerDrop ==
    [][\A f \in 1..MaxConnects :
          (Poll(f) /\ ListenerDropped(futures[f].dest)) =>
              /\ futures'[f].pc = "ConnectionRefused"
              /\ futures'[f].client = "dropped"
              /\ futures'[f].server = "dropped"
              /\ channels' = channels
      ]_vars

\* A connect called after the Listener of its destination was dropped has
\* been driven and refused.
C5_Witness ==
    \E f \in Futs :
        /\ futures[f].pc = "ConnectionRefused"
        /\ ListenerDropped(futures[f].dest)
        /\ \E g \in Futs : g < f /\ futures[g].dest = futures[f].dest
                              /\ futures[g].pc = "Ok"

\* The server socket of pair h sits in a backlog queue of its destination.
Queued(h) ==
    \E k \in Chans(futures[h].dest) :
        h \in Range(channels[futures[h].dest][k].queue)

\* C6 as stated: a future that resolved to Ok has had its server half
\* enqueued, and a server half of such a future leaves the backlog only by
\* being accepted.
C6_StaysUntilAccepted ==
    /\ [](\A h \in Futs : futures[h].pc = "Ok" =>
             futures[h].server # "future")
    /\ [][\A h \in Futs :
             (/\ futures[h].pc = "Ok"
              /\ futures[h].server = "queue"
              /\ futures'[h].server # "queue")
             => futures'[h].server = "accepted"
         ]_vars

\* C6 as amended: a future resolves to Ok only with its server half
\* enqueued (at its first poll: into the backlog of its destination, on
\* that step); a queued server half leaves the backlog only by an accept of
\* the Listener holding the receiver or by that Listener being dropped.
C6_EnqueuedUntilAcceptedOrListenerDropped ==
    /\ [](\A h \in Futs :
             /\ futures[h].pc \in {"Ok", "suspended"} =>
                    futures[h].server # "future"
             /\ futures[h].server = "queue" <=> Queued(h))
    /\ [][\A h \in Futs :
             /\ (futures[h].pc = "new" /\ futures'[h].pc = "Ok") =>
                    /\ futures'[h].server = "queue"
                    /\ futures'[h].client = "caller"
             /\ (futures[h].server = "queue" /\ futures'[h].server # "queue")
                => \E k \in ListenerChans(futures[h].dest) :
                      LET a == futures[h].dest
                      IN  /\ h \in Range(channels[a][k].queue)
                          /\ \/ /\ futures'[h].server = "accepted"
                                /\ h = Head(channels[a][k].queue)
                                /\ channels'[a][k].rx = "listener"
                             \/ /\ futures'[h].server = "dropped"
                                /\ channels'[a][k].rx = "dropped"
         ]_vars

\* A connect has returned its client although the Listener was dropped
\* with the paired server half still in its backlog, never accepted.
C6_Witness ==
    \E h \in Futs :
        /\ futures[h].pc = "Ok"
        /\ futures[h].client = "caller"
        /\ futures[h].server = "dropped"
        /\ LET chan == channels[futures[h].dest][futures[h].ch]
           IN  chan.rx = "dropped" /\ chan.first = 0

\* C7: dropping a future that has not completed (never polled, or
\* suspended in the send) leaves both liveness handles of its identity
\* reporting dropped.
C7_CancelDropsBothHalves ==
    [][\A f \in 1..MaxConnects :
          DropFuture(f) =>
              /\ client_is_dropped(futures', f)
              /\ server_is_dropped(futures', f)
      ]_vars

\* The ports of source IP ip held by identities with a half not dropped.
LivePorts(ip) ==
    {c.source[2] : c \in {d \in connections :
                            d.source[1] = ip /\ Live(d.h)}}

FreePorts(ip) == (0..MaxPort) \ LivePorts(ip)

Highest(S) == CHOOSE p \in S : \A q \in S : q <= p

\* C8: a connect from an IP is assigned the highest port that no identity
\* of that IP with a half still alive holds: the port of an identity whose
\* halves are both dropped counts as free.
C8_PortReuseAfterDrop ==
    [][(Len(futures') = Len(futures) + 1) =>
          LET f == futures'[Len(futures')]
          IN  /\ FreePorts(f.ip) # {}
              /\ f.port = Highest(FreePorts(f.ip))
              /\ f.reg = "Ok"
      ]_vars

\* A connect was assigned the port that an earlier connection of the same
\* IP, both of whose halves were dropped, had held.
C8_Witness ==
    \E f, g \in Futs :
        /\ f < g
        /\ futures[f].ip = futures[g].ip
        /\ futures[f].port = futures[g].port
        /\ futures[f].reg = "Ok" /\ futures[g].reg = "Ok"
        /\ futures[f].pc = "Ok"
        /\ client_is_dropped(futures, f) /\ server_is_dropped(futures, f)
        /\ \E c \in connections : c.h = g

\* C9: an identity is registered, with its port, from the connect call on,
\* before its future is polled; two connect calls of one source IP whose
\* identities both have a half alive hold different ports.
C9_PortsAtCallTime ==
    /\ \A f \in Futs :
          (futures[f].pc = "new" /\ futures[f].reg = "Ok") =>
              [source |-> <<futures[f].ip, futures[f].port>>,
               dest |-> futures[f].dest, h |-> f] \in connections
    /\ \A f, g \in Futs :
          (/\ f # g
           /\ futures[f].ip = futures[g].ip
           /\ Live(f) /\ Live(g))
          => futures[f].port # futures[g].port

\* Two connects of one source IP to different destinations, neither future
\* polled yet, hold different ports.
C9_Witness ==
    \E f, g \in Futs :
        /\ f # g
        /\ futures[f].ip = futures[g].ip
        /\ futures[f].dest # futures[g].dest
        /\ futures[f].pc = "new" /\ futures[g].pc = "new"
        /\ futures[f].port # futures[g].port

\* The receivers of address a that were handed to a Listener.
HandedOut(a) == {k \in Chans(a) : channels[a][k].rx # "registry"}

\* C10: an endpoint entry is never removed, a Bound entry stays Bound, a
\* listen on a Bound address returns AddrInUse, and at most one receiver per
\* address is ever handed to a Listener.
C10_BindingMonotone ==
    /\ [](\A a \in Addrs :
             /\ Cardinality(HandedOut(a)) <= 1
             /\ Len(channels[a]) <= 1
             /\ endpoints[a].kind = "Bound" <=> HandedOut(a) # {})
    /\ [][\A a \in Addrs :
             /\ endpoints[a].kind # "Vacant" => endpoints'[a].kind # "Vacant"
             /\ endpoints[a].kind = "Bound" => endpoints'[a] = endpoints[a]
             /\ (Listen(a) /\ endpoints[a].kind = "Bound") => rejected' = a
         ]_vars

\* listen(A) has just been refused although the only Listener of A is gone.
C10_Witness ==
    /\ rejected = "A"
    /\ endpoints["A"].kind = "Bound"
    /\ HandedOut("A") # {}
    /\ ListenerChans("A") = {}

(* ------------------------- fair scheduling ----------------------------- *)

\* Connects from every source IP to the one address "A", whose Listener
\* keeps accepting, under an executor that polls again every future whose
\* sender was woken: each accept and each resumption that stays possible is
\* eventually taken.
FairNext ==
    \/ \E ip \in IPs : Connect(ip, "A")
    \/ Listen("A")
    \/ \E f \in 1..MaxConnects : Poll(f)
    \/ \E f \in 1..MaxConnects : Resume(f)
    \/ \E f \in 1..MaxConnects : DropFuture(f)
    \/ \E h \in 1..MaxConnects : DropClient(h)
    \/ \E h \in 1..MaxConnects : DropServer(h)
    \/ \E k \in 1..MaxChans : Accept("A", k)
    \/ \E k \in 1..MaxChans : DropListener("A", k)

FairSpec ==
    /\ Init
    /\ [][FairNext]_vars
    /\ \A k \in 1..MaxChans : WF_vars(Accept("A", k))
    /\ \A f \in 1..MaxConnects : WF_vars(Resume(f))

\* The number of unaccepted server sockets queued ahead of the socket of
\* pair h in the backlog of its destination (0 when it is not queued).
Ahead(h) ==
    LET q == channels[futures[h].dest][futures[h].ch].queue
    IN  IF h \in Range(q)
        THEN (CHOOSE i \in 1..Len(q) : q[i] = h) - 1
        ELSE 0

\* C11: the first poll of a connect future whose destination backlog is full
\* (the buffer is taken by sockets of other connects) and whose receiver
\* exists leaves the future suspended, neither Ok nor an error; a suspended
\* future that is not dropped stays suspended while the receiver exists and
\* the buffer ahead of its socket is full, and then resolves to Ok with the
\* client; and under a Listener that keeps accepting every suspended future
\* resolves to Ok unless its caller drops it.
C11_SuspendsWhileFull ==
    /\ [][\A f \in 1..MaxConnects :
             /\ (/\ Poll(f)
                 /\ futures[f].reg = "Ok"
                 /\ channels[futures[f].dest][futures[f].ch].rx # "dropped"
                 /\ Len(channels[futures[f].dest][futures[f].ch].queue)
                        >= Buffer)
                => /\ futures'[f].pc = "suspended"
                   /\ futures'[f].client = "future"
             /\ (/\ f \in Futs
                 /\ futures[f].pc = "suspended"
                 /\ futures'[f].pc # "suspended")
                => \/ futures'[f].pc = "cancelled"
                   \/ /\ futures'[f].pc = "Ok"
                      /\ futures'[f].client = "caller"
                      /\ \/ channels[futures[f].dest][futures[f].ch].rx
                               = "dropped"
                         \/ Ahead(f) < Buffer
         ]_vars
    /\ \A f \in 1..MaxConnects :
          (/\ f \in Futs
           /\ futures[f].pc = "suspended"
           /\ channels[futures[f].dest][futures[f].ch].rx = "listener")
          ~> (f \in Futs /\ futures[f].pc \in {"Ok", "cancelled"})

\* A driven future is suspended behind another connect's unaccepted socket
\* in the backlog of a live Listener.
C11_Witness ==
    \E f \in Futs :
        /\ futures[f].pc = "suspended"
        /\ futures[f].parked
        /\ channels[futures[f].dest][futures[f].ch].rx = "listener"
        /\ Ahead(f) >= Buffer

\* C12: an address has at most one backlog channel, created by the first
\* connect or listen that touched it; the entry of the address holds that
\* channel's sender, every connect future to the address sends through it,
\* every queued server socket sits in it, and a Listener of the address
\* holds its receiver; a connect call creates the entry of a vacant
\* destination and otherwise leaves the endpoint map and the channels as
\* they are.
C12_SingleChannel ==
    /\ [](/\ \A a \in Addrs :
                /\ Len(channels[a]) <= 1
                /\ endpoints[a].kind = "Vacant" <=> channels[a] = <<>>
                /\ endpoints[a].kind # "Vacant" => endpoints[a].tx = 1
                /\ endpoints[a].kind = "Unbound" =>
                       /\ endpoints[a].rx = 1
                       /\ channels[a][1].rx = "registry"
                /\ endpoints[a].kind = "Bound" =>
                       channels[a][1].rx \in {"listener", "dropped"}
          /\ \A f \in Futs :
                /\ futures[f].ch = 1
                /\ channels[futures[f].dest] # <<>>
                /\ futures[f].server = "queue" =>
                       f \in Range(channels[futures[f].dest][1].queue))
    /\ [][(Len(futures') = Len(futures) + 1) =>
             LET dest == futures'[Len(futures')].dest
             IN  /\ \A a \in Addrs \ {dest} :
                       /\ endpoints'[a] = endpoints[a]
                       /\ channels'[a] = channels[a]
                 /\ endpoints[dest].kind # "Vacant" =>
                       /\ endpoints'[dest] = endpoints[dest]
                       /\ channels'[dest] = channels[dest]
                 /\ endpoints[dest].kind = "Vacant" =>
                       /\ endpoints'[dest] = Unbound(1, 1)
                       /\ channels'[dest] = <<NewChannel("registry")>>
         ]_vars

\* A Listener bound to A after a connect had enqueued its socket accepted
\* that socket, and a connect made after that accept (it was given the port
\* of the first, collected, connection) has enqueued through the same
\* channel.
C12_Witness ==
    \E f, g \in Futs :
        /\ f < g
        /\ futures[f].dest = "A" /\ futures[g].dest = "A"
        /\ futures[f].ip = futures[g].ip
        /\ futures[f].port = futures[g].port
        /\ futures[g].reg = "Ok"
        /\ channels["A"][1].late
        /\ channels["A"][1].first = f
        /\ futures[g].server \in {"queue", "accepted"}

\* C13: a connect call and a listen call remove from the identity set
\* every identity both of whose liveness handles report dropped when the
\* call is made, and keep every identity with a handle not dropped; listen
\* adds nothing and connect adds only the identity of the new pair.
C13_GcOnEveryCall ==
    [][((\E c \in ConnectArgs : Connect(c[1], c[2]))
           \/ (\E a \in Addrs : Listen(a)))
       => /\ \A c \in connections :
                c \in connections' <=>
                    ~(/\ client_is_dropped(futures, c.h)
                      /\ server_is_dropped(futures, c.h))
          /\ \A c \in connections' \ connections :
                /\ Len(futures') = Len(futures) + 1
                /\ c.h = Len(futures')
      ]_vars

\* A listen call has just run: the identity of a connection with both
\* halves dropped is gone from the set, and an identity whose client half
\* alone is dropped is still in it.
C13_Witness ==
    /\ rejected \in Addrs
    /\ \E f, g \in Futs :
          /\ futures[f].reg = "Ok"
          /\ client_is_dropped(futures, f) /\ server_is_dropped(futures, f)
          /\ \A c \in connections : c.h # f
          /\ client_is_dropped(futures, g) /\ ~server_is_dropped(futures, g)
          /\ \E c \in connections : c.h = g

\* C14: when some port is not the source port of any identity of the
\* caller's source IP that is registered when the scan runs (after the
\* call's garbage collection), connect is given the largest such port;
\* identities of other source IPs do not count, so a connect from an IP
\* with no registered identity is given the maximum port.
C14_LargestUnusedPort ==
    [][(Len(futures') = Len(futures) + 1) =>
          LET f == futures'[Len(futures')]
              registered == gc_dropped(connections, futures)
              used == {c.source[2] :
                          c \in {d \in registered : d.source[1] = f.ip}}
          IN  /\ (0..MaxPort) \ used # {} =>
                    f.port = Highest((0..MaxPort) \ used)
              /\ (\A d \in registered : d.source[1] # f.ip) =>
                    f.port = MaxPort
      ]_vars

\* Two connections of different source IPs, both registered with a half
\* alive, both hold the maximum port.
C14_Witness ==
    \E f, g \in Futs :
        /\ f < g
        /\ futures[f].ip # futures[g].ip
        /\ futures[f].port = MaxPort /\ futures[g].port = MaxPort
        /\ \E c, d \in connections : c.h = f /\ d.h = g
        /\ Live(f) /\ Live(g)

(* --------------------------- port exhaustion --------------------------- *)

\* One source IP opening more connections to one address than there are
\* ports: the connect calls all come from "X" and go to "A", and there is
\* one more of them than port values.
ExhaustCalls == MaxPort + 2

ConnectExhaust == ConnectCall("X", "A", ExhaustCalls)

ExhaustNext ==
    \/ ConnectExhaust
    \/ Listen("A")
    \/ \E f \in 1..ExhaustCalls : Poll(f)
    \/ \E f \in 1..ExhaustCalls : Resume(f)
    \/ \E f \in 1..ExhaustCalls : DropFuture(f)
    \/ \E h \in 1..ExhaustCalls : DropClient(h)
    \/ \E h \in 1..ExhaustCalls : DropServer(h)
    \/ \E k \in 1..MaxChans : Accept("A", k)
    \/ \E k \in 1..MaxChans : DropListener("A", k)

ExhaustSpec == Init /\ [][ExhaustNext]_vars

\* Every port value is the source port of an identity of source IP ip that
\* the garbage collection of the next call retains.
Exhausted(ip) ==
    \A p \in 0..MaxPort :
        \E c \in gc_dropped(connections, futures) :
            c.source = <<ip, p>>

\* C15: a connect call made when every port from the maximum down to 0 is
\* in use by registered identities of its source IP returns neither a port
\* nor an error: the call never returns (no future, no result, nothing
\* registered), and this is the only way a connect call fails to return.
C15_ScanNeverReturns ==
    /\ [][/\ (ConnectExhaust /\ Exhausted("X")) =>
                /\ diverged'
                /\ futures' = futures
                /\ endpoints' = endpoints
                /\ connections' = gc_dropped(connections, futures)
          /\ (~diverged /\ diverged') => (ConnectExhaust /\ Exhausted("X"))
          /\ (ConnectExhaust /\ ~Exhausted("X")) =>
                /\ ~diverged'
                /\ Len(futures') = Len(futures) + 1
         ]_vars
    /\ [](diverged => Exhausted("X"))

\* A connect call was made with every port of its source IP in use and has
\* not returned.
C15_Witness ==
    /\ diverged
    /\ Exhausted("X")
    /\ Len(futures) = MaxPort + 1

\* C16: the backlog channel of an address never holds more than one server
\* socket that has not been accepted.
C16_BacklogAtMostOne ==
    \A a \in Addrs : \A k \in Chans(a) : Len(channels[a][k].queue) <= 1

\* C17: in every reachable state, a connect call from a source IP that has
\* a free port is given a port that no registered identity of that IP uses
\* and its registration succeeds; no connect call has ever yielded
\* AddrInUse.
C17_RegistrationSucceeds ==
    /\ \A f \in Futs :
          futures[f].reg = "Ok" /\ futures[f].pc # "AddrInUse"
    /\ \A c \in ConnectArgs :
          ~Exhausted(c[1]) =>
              LET r == ConnectRegistration(connections, futures, c[1], c[2],
                                           Len(futures) + 1)
              IN  /\ r.ok
                  /\ r.port \in 0..MaxPort
                  /\ \A d \in gc_dropped(connections, futures) :
                        d.source # <<c[1], r.port>>
                  /\ \E d \in r.conns :
                        d.source = <<c[1], r.port>> /\ d.dest = c[2]

\* One source IP has made more connect calls to one address than there are
\* ports, every one of them was registered, and a port is free again.
C17_Witness ==
    /\ Len(futures) = MaxPort + 2
    /\ \A f \in Futs : futures[f].reg = "Ok" /\ futures[f].ip = "X"
    /\ \E c \in connections : c.h = Len(futures)
    /\ ~Exhausted("X")
    /\ ~diverged

\* C18: once a listen on an address has succeeded (its receiver was handed
\* to a Listener), the entry of the address is Bound in every later state,
\* whether that Listener is alive or dropped, and a listen on it returns
\* AddrInUse leaving the endpoint map and the channels as they are; a listen
\* is refused only on an address bound before.
C18_BoundForever ==
    \A a \in Addrs :
        /\ HandedOut(a) # {} =>
              LET r == ListenEndpoint(endpoints, channels, a)
              IN  /\ endpoints[a].kind = "Bound"
                  /\ ~r.ok
                  /\ r.eps = endpoints
                  /\ r.chans = channels
        /\ rejected = a => HandedOut(a) # {}

\* After the Listener of an address was dropped, a connect to the address
\* was refused and a listen on it has just returned AddrInUse.
C18_Witness ==
    \E a \in Addrs :
        /\ rejected = a
        /\ ListenerDropped(a)
        /\ \E f \in Futs :
              futures[f].dest = a /\ futures[f].pc = "ConnectionRefused"

\* C19: while the server socket of a connection sits unaccepted in the
\* backlog of its destination, its identity is registered and the garbage
\* collection of a connect or listen call retains it, whether or not the
\* client half is dropped; no other registered identity has its source
\* address, and a connect from its source IP is not given its port.
C19_QueuedIdentityKept ==
    \A h \in Futs :
        (futures[h].server = "queue" /\ Queued(h)) =>
            LET id == [source |-> <<futures[h].ip, futures[h].port>>,
                       dest |-> futures[h].dest, h |-> h]
                kept == gc_dropped(connections, futures)
            IN  /\ id \in connections
                /\ id \in kept
                /\ \A c \in connections : c.source = id.source => c = id
                /\ unused_socket_port(kept, futures[h].ip) # futures[h].port

\* A listen call has just run its garbage collection, and the identity of
\* a connection whose client half is dropped and whose server socket waits
\* in the backlog of a Listener is still registered.
C19_Witness ==
    \E h \in Futs :
        /\ rejected = futures[h].dest
        /\ futures[h].server = "queue"
        /\ client_is_dropped(futures, h)
        /\ channels[futures[h].dest][futures[h].ch].rx = "listener"
        /\ \E c \in connections : c.h = h

\* C20: no two registered identities have the same source address (IP and
\* port), whatever their destinations.
C20_SourceUnique ==
    \A c, d \in connections : c.source = d.source => c = d

\* Two identities of one source IP with different destinations are
\* registered under different ports, one of them with both halves already
\* dropped and not yet collected.
C20_Witness ==
    \E c, d \in connections :
        /\ c.source[1] = d.source[1]
        /\ c.dest # d.dest
        /\ c.source[2] # d.source[2]
        /\ client_is_dropped(futures, c.h) /\ server_is_dropped(futures, c.h)

====
